---- MODULE Spec2Model ----
(***************************************************************************)
(* Model of the interaction state machine and history engine of            *)
(* src/src/components/DrawingCanvas.tsx (a React component on fabric.js).  *)
(*                                                                         *)
(* React state is one variable per useState cell.  A function defined in   *)
(* a render reads the state cells of THAT render: a "closure" below is the *)
(* record of the state cells a function was created with.  The canvas is   *)
(* an object reference, so canvas contents are always read live.           *)
(*                                                                         *)
(* The canvas event handlers (path:created, mouse:down, mouse:move,        *)
(* mouse:up) are registered once, in the mount effect whose dependency     *)
(* list is [] (lines 80-225): they keep the closure of the first render.   *)
(* undo, redo, clearCanvas and the key handler are re-created on every     *)
(* render and read the current state.  History indices are 0-based as in   *)
(* the source; TLA+ sequences are 1-based.                                 *)
(***************************************************************************)
EXTENDS Integers, Sequences, FiniteSets, TLC

\* ------------------------------------------------------------------ bounds
MaxCoord == 1       \* pointer coordinates are 0..MaxCoord
MaxObjs == 2        \* objects ever created on the canvas
MaxHist == 3        \* snapshots kept in the history
MaxTimers == 1      \* setTimeout(saveState, 10) calls not yet fired
MaxLoads == 2       \* loadFromJSON calls not yet completed
MaxDrag == 3        \* drag coordinates are 0..MaxDrag (SpecDrag)

\* ------------------------------------------------------------------ data
ToolIds == {"select", "brush", "eraser", "line", "rectangle", "circle",
            "triangle", "text", "move"}
ShapeTools == {"line", "rectangle", "circle", "triangle"}
FreehandTools == {"brush", "eraser"}

Coord == 0..MaxCoord
Points == [x : Coord, y : Coord]
DragPoints == [x : 0..MaxDrag, y : 0..MaxDrag]
NoPoint == [x |-> -1, y |-> -1]     \* startPoint === null
NoObject == 0                       \* getActiveObject() === undefined

\* The style cells strokeColor, fillColor, strokeWidth, opacity and hasFill
\* as one record.  InitialStyle has their initial values; the style
\* controls lead to the styles of Styles.
InitialStyle ==
    [strokeColor |-> "#000000", fillColor |-> "#ffffff", strokeWidth |-> 2,
     opacity |-> 100, hasFill |-> FALSE]
OtherStyle ==
    [strokeColor |-> "#FF0000", fillColor |-> "#0000FF", strokeWidth |-> 5,
     opacity |-> 50, hasFill |-> TRUE]
Styles == {InitialStyle, OtherStyle}
\* The look of an object that the component does not set (a freehand path
\* gets it from the engine's brush).
NoStyle == [stroke |-> "", strokeWidth |-> 0, fill |-> "", opacity |-> 0]

VARIABLES
    fabricCanvas,   \* useState cell: "null" or "canvas"
    activeTool,     \* useState cell
    history,        \* useState cell: sequence of serialized scenes
    historyStep,    \* useState cell: 0-based index, -1 initially
    isDrawing,      \* useState cell
    startPoint,     \* useState cell: a point or NoPoint
    style,          \* useState cells strokeColor .. hasFill
    objects,        \* canvas.getObjects(): sequence of objects, render order
    activeObject,   \* canvas.getActiveObject(): an object id or NoObject
    stroking,       \* the engine is capturing a freehand path
    button,         \* the pointer button: "up" or "down"
    timers,         \* pending setTimeout(saveState, 10): closures, in order
    loads,          \* pending loadFromJSON(json, callback) calls
    nextId,         \* identity of the next object created
    last,           \* history variable: the last user operation and the
                    \* history length / cursor / object count before it
    gesture         \* history variable: the pointer gesture in progress

prog == <<fabricCanvas, activeTool, history, historyStep, isDrawing,
          startPoint, style, objects, activeObject, stroking, button, timers,
          loads, nextId>>
vars == <<fabricCanvas, activeTool, history, historyStep, isDrawing,
          startPoint, style, objects, activeObject, stroking, button, timers,
          loads, nextId, last, gesture>>

\* The program state as one record, so that a handler is a function from
\* state to state and a sequence of calls is a composition.
Cur ==
    [fabricCanvas |-> fabricCanvas, activeTool |-> activeTool,
     history |-> history, historyStep |-> historyStep,
     isDrawing |-> isDrawing, startPoint |-> startPoint, style |-> style,
     objects |-> objects, activeObject |-> activeObject,
     stroking |-> stroking, button |-> button, timers |-> timers,
     loads |-> loads, nextId |-> nextId]

Set(s) ==
    /\ fabricCanvas' = s.fabricCanvas
    /\ activeTool' = s.activeTool
    /\ history' = s.history
    /\ historyStep' = s.historyStep
    /\ isDrawing' = s.isDrawing
    /\ startPoint' = s.startPoint
    /\ style' = s.style
    /\ objects' = s.objects
    /\ activeObject' = s.activeObject
    /\ stroking' = s.stroking
    /\ button' = s.button
    /\ timers' = s.timers
    /\ loads' = s.loads
    /\ nextId' = s.nextId

\* The state cells a function created in state s reads.
Closure(s) ==
    [fabricCanvas |-> s.fabricCanvas, activeTool |-> s.activeTool,
     history |-> s.history, historyStep |-> s.historyStep,
     isDrawing |-> s.isDrawing, startPoint |-> s.startPoint,
     style |-> s.style]

\* The first render: the initial values of the useState cells.
MountClosure ==
    [fabricCanvas |-> "null", activeTool |-> "brush",
     history |-> <<>>, historyStep |-> -1,
     isDrawing |-> FALSE, startPoint |-> NoPoint, style |-> InitialStyle]

\* The state cells as they are now: what a handler registered again on
\* every render would read.
LiveClosure ==
    [fabricCanvas |-> fabricCanvas, activeTool |-> activeTool,
     history |-> history, historyStep |-> historyStep,
     isDrawing |-> isDrawing, startPoint |-> startPoint, style |-> style]

\* The closure of the handlers registered by the mount effect: the effect
\* runs once (dependency list []), after the first render.
HandlerClosure == MountClosure

\* ------------------------------------------------------------------ helpers
Min(a, b) == IF a < b THEN a ELSE b
Max(a, b) == IF a > b THEN a ELSE b
Abs(a) == IF a < 0 THEN -a ELSE a

\* Array.prototype.slice(0, n): n clamped to 0..length.
Slice(s, n) == SubSeq(s, 1, Max(0, Min(n, Len(s))))

RemoveAt(s, i) == SubSeq(s, 1, i - 1) \o SubSeq(s, i + 1, Len(s))

NotTemp(o) == ~o.isTemp

\* objects.filter(obj => !obj.isTemp)
NonTempObjectsKeepAll(objs) == objs
NonTempObjects(objs) == SelectSeq(objs, NotTemp)

\* JSON serialization of one object: the engine's toJSON has the kind, the
\* geometry and the style (the id stands for the rest of it); isTemp is a
\* custom property and is not serialized.
ToJSON(o) == [id |-> o.id, kind |-> o.kind, geom |-> o.geom, style |-> o.style]
\* An object revived from JSON has no isTemp property (falsy).
FromJSON(j) ==
    [id |-> j.id, kind |-> j.kind, geom |-> j.geom, style |-> j.style,
     isTemp |-> FALSE]

\* JSON.stringify({...canvas.toJSON(), objects: nonTempObjects})
Serialize(objs) ==
    LET kept == NonTempObjects(objs)
    IN  [i \in 1..Len(kept) |-> ToJSON(kept[i])]
\* loadFromJSON: clear the canvas, then add the revived objects.
Deserialize(json) == [i \in 1..Len(json) |-> FromJSON(json[i])]

\* ------------------------------------------------------------------ shapes
\* The preview shape of the mouse:move handler for anchor a and pointer p.
\* line: [x1, y1, x2, y2].
LineGeom(a, p) == <<a.x, a.y, p.x, p.y>>
\* rectangle: left, top, width, height.
RectGeomAnchored(a, p) == <<a.x, a.y, p.x - a.x, p.y - a.y>>
RectGeom(a, p) ==
    <<Min(a.x, p.x), Min(a.y, p.y), Abs(p.x - a.x), Abs(p.y - a.y)>>
\* circle: radius = sqrt(dx^2 + dy^2) / 2, left = a.x - radius,
\* top = a.y - radius.  Kept exact as anchor and (2 * radius)^2.
CircleGeom(a, p) ==
    <<a.x, a.y, (p.x - a.x) * (p.x - a.x) + (p.y - a.y) * (p.y - a.y)>>
\* triangle: the three points, every coordinate doubled (width / 2 is not
\* an integer): apex, second point, third point.
TriangleGeom(a, p) ==
    LET w == p.x - a.x
        h == p.y - a.y
    IN  <<2 * a.x + w, 2 * a.y,
          2 * (a.x + w), 2 * (a.y + h),
          2 * a.x, 2 * (a.y + h)>>

\* The options every shape is built with, in closure c: a line has fill
\* '', the others hasFill ? fillColor : 'transparent'; opacity is kept in
\* percent (the code divides by 100).
ShapeStyle(c, tool) ==
    [stroke |-> c.style.strokeColor,
     strokeWidth |-> c.style.strokeWidth,
     fill |-> IF tool = "line" THEN ""
              ELSE IF c.style.hasFill THEN c.style.fillColor
              ELSE "transparent",
     opacity |-> c.style.opacity]
\* The text object: fill: strokeColor, the engine's defaults otherwise.
TextStyle(c) == [NoStyle EXCEPT !.fill = c.style.strokeColor]

ShapeGeom(tool, a, p) ==
    CASE tool = "line" -> LineGeom(a, p)
      [] tool = "rectangle" -> RectGeom(a, p)
      [] tool = "circle" -> CircleGeom(a, p)
      [] tool = "triangle" -> TriangleGeom(a, p)

\* ------------------------------------------------------------------ engine
\* The effect of lines 227-245 (dependencies include activeTool and
\* fabricCanvas, so it follows the current state).
IsDrawingMode(s) ==
    s.fabricCanvas = "canvas" /\ s.activeTool \in FreehandTools

\* canvas.add(obj)
CanvasAddPreview(s, kind, geom, look, temp) ==
    [s EXCEPT !.objects = Append(@, [id |-> s.nextId, kind |-> kind,
                                      geom |-> geom, style |-> look,
                                      isTemp |-> TRUE]),
              !.nextId = @ + 1]
CanvasAdd(s, kind, geom, look, temp) ==
    [s EXCEPT !.objects = Append(@, [id |-> s.nextId, kind |-> kind,
                                      geom |-> geom, style |-> look,
                                      isTemp |-> temp]),
              !.nextId = @ + 1]

IndexOf(objs, id) == CHOOSE i \in 1..Len(objs) : objs[i].id = id
OnCanvas(objs, id) == \E i \in 1..Len(objs) : objs[i].id = id

\* canvas.remove(obj): an active object that is removed is deselected.
CanvasRemove(s, id) ==
    IF OnCanvas(s.objects, id)
    THEN [s EXCEPT !.objects = RemoveAt(@, IndexOf(s.objects, id)),
                   !.activeObject = IF @ = id THEN NoObject ELSE @]
    ELSE s

\* canvas.clear()
CanvasClear(s) == [s EXCEPT !.objects = <<>>, !.activeObject = NoObject]

\* ------------------------------------------------------------------ history
\* What a setTimeout(saveState, 10) keeps of the closure it was made in.
SaveDeps(c) ==
    [fabricCanvas |-> c.fabricCanvas, history |-> c.history,
     historyStep |-> c.historyStep]

\* saveState, as created in closure c, run on state s.
saveStateNoGuard(c, s) ==
    LET newHistory ==
            Append(Slice(c.history, c.historyStep + 1), Serialize(s.objects))
    IN  [s EXCEPT !.history = newHistory,
                  !.historyStep = Len(newHistory) - 1]
saveStateNoTruncate(c, s) ==
    IF c.fabricCanvas = "null"
    THEN s
    ELSE LET newHistory == Append(c.history, Serialize(s.objects))
         IN  [s EXCEPT !.history = newHistory,
                       !.historyStep = Len(newHistory) - 1]
saveState(c, s) ==
    IF c.fabricCanvas = "null"
    THEN s
    ELSE LET newHistory ==
                 Append(Slice(c.history, c.historyStep + 1),
                        Serialize(s.objects))
         IN  [s EXCEPT !.history = newHistory,
                       !.historyStep = Len(newHistory) - 1]

\* undo / redo call loadFromJSON(history[newStep], callback) when their
\* guard holds; history[newStep] undefined (index past the end) is refused
\* by the engine and the callback never runs.  The replay is asynchronous:
\* the scene is replaced and the callback runs in a later step
\* (LoadComplete), so other events can come between the call and it.
RequestLoad(s, newStep) ==
    IF s.fabricCanvas = "canvas" /\ newStep + 1 \in 1..Len(s.history)
    THEN [s EXCEPT !.loads = Append(@, [json |-> s.history[newStep + 1],
                                        newStep |-> newStep])]
    ELSE s

undoClamped(s) == RequestLoad(s, Max(s.historyStep - 1, 0))
undo(s) ==
    IF s.historyStep > 0 THEN RequestLoad(s, s.historyStep - 1) ELSE s

redo(s) ==
    IF s.historyStep < Len(s.history) - 1
    THEN RequestLoad(s, s.historyStep + 1)
    ELSE s

\* The replay completes: the scene is replaced, then the callback runs
\* renderAll() and setHistoryStep(newStep).
loadComplete(s, i) ==
    [s EXCEPT !.objects = Deserialize(s.loads[i].json),
              !.activeObject = NoObject,
              !.historyStep = s.loads[i].newStep,
              !.loads = RemoveAt(@, i)]

clearCanvasNoClear(s) ==
    IF s.fabricCanvas = "null" THEN s ELSE saveState(Closure(s), s)
clearCanvas(s) ==
    IF s.fabricCanvas = "null"
    THEN s
    ELSE saveState(Closure(s), CanvasClear(s))

\* handleKeyDown, key === 'delete'
deleteKeyAlwaysSaves(s) ==
    IF s.fabricCanvas = "canvas"
    THEN saveState(Closure(s), CanvasRemove(s, s.activeObject))
    ELSE s
deleteKeyNoSave(s) ==
    IF s.fabricCanvas = "canvas" /\ s.activeObject # NoObject
    THEN CanvasRemove(s, s.activeObject)
    ELSE s
deleteKey(s) ==
    IF s.fabricCanvas = "canvas" /\ s.activeObject # NoObject
    THEN saveState(Closure(s), CanvasRemove(s, s.activeObject))
    ELSE s

\* ------------------------------------------------------------------ handlers
\* canvas.on('path:created', ...) in closure c
pathCreated(c, s) == [s EXCEPT !.timers = Append(@, SaveDeps(c))]

\* canvas.on('mouse:down', ...) in closure c, pointer at p
mouseDown(c, s, p) ==
    IF c.activeTool \in ShapeTools
    THEN [s EXCEPT !.isDrawing = TRUE, !.startPoint = p]
    ELSE IF c.activeTool = "text"
    THEN LET s1 == CanvasAdd(s, "text", <<p.x, p.y>>, TextStyle(c), FALSE)
         IN  [s1 EXCEPT !.activeObject = s.nextId,
                        !.timers = Append(@, SaveDeps(c))]
    ELSE s

LastIsTemp(objs) == Len(objs) > 0 /\ objs[Len(objs)].isTemp

\* canvas.on('mouse:move', ...) in closure c, pointer at p
mouseMoveSaves(c, s, p) == [s EXCEPT !.timers = Append(@, SaveDeps(c))]
mouseMove(c, s, p) ==
    IF ~c.isDrawing \/ c.startPoint = NoPoint
    THEN s
    ELSE LET s1 == IF LastIsTemp(s.objects)
                   THEN CanvasRemove(s, s.objects[Len(s.objects)].id)
                   ELSE s
         IN  IF c.activeTool \in ShapeTools
             THEN CanvasAdd(s1, c.activeTool,
                            ShapeGeom(c.activeTool, c.startPoint, p),
                            ShapeStyle(c, c.activeTool), TRUE)
             ELSE s1

\* canvas.on('mouse:up', ...) in closure c
mouseUp(c, s) ==
    IF c.isDrawing
    THEN LET s1 == [s EXCEPT !.isDrawing = FALSE, !.startPoint = NoPoint]
         IN  IF LastIsTemp(s1.objects)
             THEN [s1 EXCEPT !.objects[Len(s1.objects)].isTemp = FALSE,
                             !.timers = Append(@, SaveDeps(c))]
             ELSE s1
    ELSE s

\* ------------------------------------------------------------------ bookkeeping
\* The guards that keep the model finite, on the state an action leads to.
Bounded(s) ==
    /\ s.nextId <= MaxObjs + 1
    /\ Len(s.history) <= MaxHist
    /\ Len(s.timers) <= MaxTimers
    /\ Len(s.loads) <= MaxLoads

Op(name) ==
    [op |-> name, len |-> Len(history), step |-> historyStep,
     n |-> Len(NonTempObjects(objects))]
Other == [op |-> "other", len |-> 0, step |-> 0, n |-> 0]

GestureIdle ==
    [phase |-> "idle", tool |-> "none", hist |-> <<>>, step |-> -1,
     objs |-> <<>>, at |-> NoPoint, style |-> InitialStyle]
\* A gesture beginning or ending now, in the given phase, with pointer at p.
GestureNow(phase, p) ==
    [phase |-> phase, tool |-> activeTool, hist |-> history,
     step |-> historyStep, objs |-> NonTempObjects(objects), at |-> p,
     style |-> style]

\* ------------------------------------------------------------------ actions
Init ==
    /\ fabricCanvas = "null"
    /\ activeTool = "brush"
    /\ history = <<>>
    /\ historyStep = -1
    /\ isDrawing = FALSE
    /\ startPoint = NoPoint
    /\ style = InitialStyle
    /\ objects = <<>>
    /\ activeObject = NoObject
    /\ stroking = FALSE
    /\ button = "up"
    /\ timers = <<>>
    /\ loads = <<>>
    /\ nextId = 1
    /\ last = Other
    /\ gesture = GestureIdle

\* The mount effect: create the canvas, register the handlers,
\* setFabricCanvas(canvas), saveState().
Mount ==
    /\ fabricCanvas = "null"
    /\ Set(saveState(HandlerClosure, [Cur EXCEPT !.fabricCanvas = "canvas"]))
    /\ last' = Op("mount")
    /\ gesture' = GestureIdle

\* handleToolClick(toolId), from a toolbar button or a shortcut key.
ToolClick(t) ==
    /\ t # activeTool
    /\ Set([Cur EXCEPT !.activeTool = t])
    /\ last' = Other
    /\ gesture' = IF gesture.phase \in {"down", "moved", "cancelled"}
                  THEN [gesture EXCEPT !.phase = "cancelled"]
                  ELSE GestureIdle

\* A style control (swatch, colour input, size and opacity sliders, fill
\* toggle) sets style cells.
SetStyle(st) ==
    /\ st # style
    /\ Set([Cur EXCEPT !.style = st])
    /\ last' = Other
    /\ UNCHANGED gesture

\* Pointer pressed at p over object `target` (NoObject: over none).  The
\* engine starts a freehand path in drawing mode and otherwise selects
\* what is under the pointer; then it fires mouse:down.
MouseDown(p, target) ==
    /\ fabricCanvas = "canvas"
    /\ button = "up"
    /\ target = NoObject \/ OnCanvas(objects, target)
    /\ LET s1 == IF IsDrawingMode(Cur)
                 THEN [Cur EXCEPT !.stroking = TRUE, !.button = "down"]
                 ELSE [Cur EXCEPT !.activeObject = target,
                                  !.button = "down"]
           s2 == mouseDown(HandlerClosure, s1, p)
       IN  /\ Bounded(s2)
           /\ Set(s2)
    /\ last' = Other
    /\ gesture' = IF activeTool \in ShapeTools
                  THEN GestureNow("down", NoPoint)
                  ELSE IF activeTool = "text"
                  THEN GestureNow("text", p)
                  ELSE GestureIdle

\* Pointer moved to p: the engine fires mouse:move.
MouseMove(p) ==
    /\ fabricCanvas = "canvas"
    /\ LET s1 == mouseMove(HandlerClosure, Cur, p)
       IN  /\ Bounded(s1)
           /\ Set(s1)
    /\ last' = Other
    /\ gesture' = IF button = "down" /\ gesture.phase = "down"
                  THEN [gesture EXCEPT !.phase = "moved"]
                  ELSE gesture

\* Pointer released: in drawing mode the engine adds the finished path and
\* fires path:created; then it fires mouse:up.
MouseUp ==
    /\ fabricCanvas = "canvas"
    /\ button = "down"
    /\ LET s0 == [Cur EXCEPT !.stroking = FALSE, !.button = "up"]
           s1 == IF stroking /\ IsDrawingMode(Cur)
                 THEN pathCreated(HandlerClosure,
                                  CanvasAdd(s0, "path", <<>>, NoStyle, FALSE))
                 ELSE s0
           s2 == mouseUp(HandlerClosure, s1)
       IN  /\ Bounded(s2)
           /\ Set(s2)
    /\ last' = Other
    /\ gesture' = CASE stroking /\ IsDrawingMode(Cur) ->
                           GestureNow("stroke", NoPoint)
                    [] gesture.phase = "moved" ->
                           [gesture EXCEPT !.phase = "done"]
                    [] gesture.phase = "cancelled" ->
                           [gesture EXCEPT !.phase = "cancelledUp"]
                    [] OTHER -> GestureIdle

\* One setTimeout(saveState, 10) fires; equal delays fire in order.
TimerFire ==
    /\ timers # <<>>
    /\ LET s1 == saveState(Head(timers), [Cur EXCEPT !.timers = Tail(@)])
       IN  /\ Bounded(s1)
           /\ Set(s1)
    /\ last' = Other
    /\ UNCHANGED gesture

\* The undo button or Ctrl+Z.
Undo ==
    /\ LET s1 == undo(Cur)
       IN  /\ Bounded(s1)
           /\ Set(s1)
    /\ last' = Op("undo")
    /\ gesture' = GestureIdle

\* The redo button, Ctrl+Shift+Z or Ctrl+Y.
Redo ==
    /\ LET s1 == redo(Cur)
       IN  /\ Bounded(s1)
           /\ Set(s1)
    /\ last' = Op("redo")
    /\ gesture' = GestureIdle

\* A pending loadFromJSON completes and runs its callback.
LoadComplete(i) ==
    /\ i \in 1..Len(loads)
    /\ Set(loadComplete(Cur, i))
    /\ last' = Other
    /\ gesture' = GestureIdle

\* The "New" button.
ClearCanvas ==
    /\ LET s1 == clearCanvas(Cur)
       IN  /\ Bounded(s1)
           /\ Set(s1)
    /\ last' = Op("clear")
    /\ gesture' = GestureIdle

\* The Delete key.
DeleteKey ==
    /\ LET s1 == deleteKey(Cur)
       IN  /\ Bounded(s1)
           /\ Set(s1)
    /\ last' = Op("delete")
    /\ gesture' = GestureIdle

Next ==
    \/ Mount
    \/ \E t \in ToolIds : ToolClick(t)
    \/ \E st \in Styles : SetStyle(st)
    \/ \E p \in Points, target \in 0..MaxObjs : MouseDown(p, target)
    \/ \E p \in Points : MouseMove(p)
    \/ MouseUp
    \/ TimerFire
    \/ Undo
    \/ Redo
    \/ \E i \in 1..MaxLoads : LoadComplete(i)
    \/ ClearCanvas
    \/ DeleteKey

Spec == Init /\ [][Next]_vars

\* ------------------------------------------------------------------ scenes
\* The history operations applied to arbitrary canvas contents: every
\* sequence of at most MaxObjs objects, each tagged preview or not, with
\* any one of them (or none) selected.
SceneObject(i, temp) ==
    [id |-> i, kind |-> IF temp THEN "rectangle" ELSE "path",
     geom |-> <<>>, style |-> NoStyle, isTemp |-> temp]

Scenes ==
    UNION {{[i \in 1..n |-> SceneObject(i, tags[i])] :
              tags \in [1..n -> BOOLEAN]} : n \in 0..MaxObjs}

InitScene ==
    /\ fabricCanvas = "canvas"
    /\ activeTool = "select"
    /\ history = <<>>
    /\ historyStep = -1
    /\ isDrawing = FALSE
    /\ startPoint = NoPoint
    /\ style = InitialStyle
    /\ objects \in Scenes
    /\ activeObject \in 0..Len(objects)
    /\ stroking = FALSE
    /\ button = "up"
    /\ timers = <<>>
    /\ loads = <<>>
    /\ nextId = Len(objects) + 1
    /\ last = Other
    /\ gesture = GestureIdle

NextScene ==
    \/ ClearCanvas
    \/ DeleteKey
    \/ Undo
    \/ Redo
    \/ \E i \in 1..MaxLoads : LoadComplete(i)

SpecScene == InitScene /\ [][NextScene]_vars

\* ------------------------------------------------------------------ drags
\* The pointer handlers as functions of their closure, applied to the
\* closure of a drag in progress: isDrawing true, startPoint any anchor,
\* activeTool any shape tool, and after it to the closure of each state
\* they lead to, up to the pointer-up and its deferred save.  The handlers
\* registered by the mount effect never have such a closure
\* (HandlerClosure); this specification is for what the handlers compute,
\* anchor and pointer drawn from DragPoints.
InitDrag ==
    /\ fabricCanvas = "canvas"
    /\ activeTool \in ShapeTools
    /\ history = <<>>
    /\ historyStep = -1
    /\ isDrawing = TRUE
    /\ startPoint \in DragPoints
    /\ style \in Styles
    /\ objects = <<>>
    /\ activeObject = NoObject
    /\ stroking = FALSE
    /\ button = "down"
    /\ timers = <<>>
    /\ loads = <<>>
    /\ nextId = 1
    /\ last = Other
    /\ gesture = GestureIdle

DragMove(p) ==
    /\ LET s1 == mouseMove(Closure(Cur), Cur, p)
       IN  /\ Bounded(s1)
           /\ Set(s1)
    /\ last' = Other
    /\ gesture' = GestureIdle

DragUp ==
    /\ button = "down"
    /\ LET s1 == mouseUp(Closure(Cur), [Cur EXCEPT !.button = "up"])
       IN  /\ Bounded(s1)
           /\ Set(s1)
    /\ last' = Other
    /\ gesture' = GestureIdle

NextDrag ==
    \/ \E p \in DragPoints : DragMove(p)
    \/ DragUp
    \/ TimerFire

SpecDrag == InitDrag /\ [][NextDrag]_vars

\* ------------------------------------------------------------------ claims
InRange(c, len) == 0 <= c /\ c < len
\* The committed scene: what a snapshot of the canvas would hold.
Committed == Serialize(objects)
\* The redo button is enabled (line 433).
canRedo == ~(historyStep >= Len(history) - 1)
Quiet == timers = <<>> /\ loads = <<>>
LastSnapshot == history[Len(history)]
Previews == {i \in 1..Len(objects) : objects[i].isTemp}

\* C1: whenever the snapshot list is non-empty, 0 <= cursor < length.
C1_CursorInRange ==
    Len(history) > 0 => InRange(historyStep, Len(history))

\* C2: snapshots[cursor] is the committed scene on the canvas; stated here
\* for the states in which no deferred save and no replay is pending.
C2_CursorIsScene ==
    (Quiet /\ InRange(historyStep, Len(history)))
        => history[historyStep + 1] = Committed

\* C3: a completed shape gesture (down, moves, up, tool unchanged) has,
\* once its deferred save has run, appended exactly one snapshot, which
\* holds a new shape, and the cursor points to it.
C3_GestureAppendsSnapshot ==
    (gesture.phase = "done" /\ gesture.tool \in ShapeTools /\ timers = <<>>)
        => /\ Len(history) = Len(gesture.hist) + 1
           /\ historyStep = Len(history) - 1
           /\ \E i \in 1..Len(LastSnapshot) :
                 /\ LastSnapshot[i].kind \in ShapeTools
                 /\ \A j \in 1..Len(gesture.objs) :
                       gesture.objs[j].id # LastSnapshot[i].id

\* A step that commits: clear or delete on an attached canvas, or a
\* deferred save whose closure has the canvas.
Commit ==
    \/ ClearCanvas /\ fabricCanvas = "canvas"
    \/ DeleteKey /\ fabricCanvas = "canvas" /\ activeObject # NoObject
    \/ TimerFire /\ Head(timers).fabricCanvas = "canvas"

Replayed(s) == IF s.loads # <<>> THEN loadComplete(s, 1) ELSE s
UndoRedo(s) == Replayed(redo(Replayed(undo(s))))

\* C5: with cursor > 0, undo() followed immediately by redo() restores the
\* committed scene and the cursor and leaves the snapshot list unchanged.
C5_UndoRedoRestores ==
    (fabricCanvas = "canvas" /\ Quiet
     /\ historyStep > 0 /\ InRange(historyStep, Len(history)))
        => /\ Serialize(UndoRedo(Cur).objects) = Committed
           /\ UndoRedo(Cur).historyStep = historyStep
           /\ UndoRedo(Cur).history = history

\* C6: undo() at cursor 0 or with an empty history, and redo() at the last
\* index, change nothing of the program state.
C6_BoundaryNoOp ==
    [][(\/ Undo /\ historyStep <= 0
        \/ Redo /\ historyStep = Len(history) - 1) => UNCHANGED prog]_vars
C6_Witness ==
    /\ last.op = "undo"
    /\ last.step = 0
    /\ last.len >= 2
    /\ historyStep = 0
    /\ loads = <<>>

C9_SnapshotHasNoPreview ==
    [][(history' # history /\ Len(history') > 0)
        => \A i \in 1..Len(history'[Len(history')]) :
              \A j \in Previews' :
                 objects'[j].id # history'[Len(history')][i].id]_vars
C9_Witness ==
    /\ last.op = "delete"
    /\ Len(history) > 0
    /\ Previews # {}

\* C10: clear() on an attached canvas appends exactly one snapshot to the
\* snapshots kept up to the cursor, that snapshot has no objects, and the
\* cursor points to it.
C10_ClearOneEmptySnapshot ==
    [][(ClearCanvas /\ fabricCanvas = "canvas")
        => /\ history' = Append(Slice(history, historyStep + 1), <<>>)
           /\ historyStep' = Len(history') - 1
           /\ objects' = <<>>]_vars
C10_Witness ==
    /\ last.op = "clear"
    /\ last.n >= 2
    /\ fabricCanvas = "canvas"
    /\ Len(history) = last.len + 1
    /\ LastSnapshot = <<>>
    /\ historyStep = Len(history) - 1

\* Commits and undos run one after the other from state s, every deferred
\* save and every replay completing before the next call.
Fired(s) ==
    IF s.timers # <<>>
    THEN saveState(Head(s.timers), [s EXCEPT !.timers = Tail(@)])
    ELSE s
\* One shape gesture with the handlers as registered: pointer-down at the
\* origin, one pointer-move to the far corner, pointer-up, deferred save.
ShapeCommit(s) ==
    Fired(mouseUp(HandlerClosure,
                  mouseMove(HandlerClosure,
                            mouseDown(HandlerClosure, s,
                                      [x |-> 0, y |-> 0]),
                            [x |-> MaxCoord, y |-> MaxCoord])))
AfterCommits(s) ==
    LET after[n \in 0..MaxHist] ==
            IF n = 0 THEN s ELSE ShapeCommit(after[n - 1])
    IN  after
AfterUndos(s) ==
    LET after[k \in 0..MaxHist] ==
            IF k = 0 THEN s ELSE Replayed(undo(after[k - 1]))
    IN  after

\* C11: from the state right after the mount, with a shape tool selected,
\* n shape commits followed by k <= n undos move the cursor back by exactly
\* k and leave on the canvas the scene that was there after commit n - k.
C11_CommitsThenUndos ==
    last.op = "mount"
        => LET commits == AfterCommits([Cur EXCEPT !.activeTool = "rectangle"])
           IN  \A n \in 1..MaxHist : \A k \in 1..n :
                  LET undone == AfterUndos(commits[n])[k]
                  IN  /\ undone.historyStep = commits[n].historyStep - k
                      /\ Serialize(undone.objects)
                             = Serialize(commits[n - k].objects)

\* C12: right after the mount effect has run, the history holds exactly
\* one snapshot, the empty canvas, and the cursor is 0.
C12_BaselineSnapshot ==
    last.op = "mount"
        => /\ Len(history) = 1
           /\ history[1] = <<>>
           /\ historyStep = 0

\* C13: the Delete key with a committed object selected removes exactly
\* that object from the canvas and appends, to the snapshots kept up to the
\* cursor, exactly one snapshot, which does not hold the object; the
\* cursor points to it.
C13_DeleteOneSnapshot ==
    [][(/\ DeleteKey
        /\ fabricCanvas = "canvas"
        /\ OnCanvas(objects, activeObject)
        /\ ~objects[IndexOf(objects, activeObject)].isTemp)
        => /\ Len(objects') = Len(objects) - 1
           /\ \A i \in 1..Len(objects) :
                 (objects[i].id # activeObject)
                     <=> (\E j \in 1..Len(objects') : objects'[j] = objects[i])
           /\ Len(history') = Min(historyStep + 1, Len(history)) + 1
           /\ SubSeq(history', 1, Len(history') - 1)
                  = SubSeq(history, 1, Len(history') - 1)
           /\ history'[Len(history')] = Serialize(objects')
           /\ \A i \in 1..Len(history'[Len(history')]) :
                 history'[Len(history')][i].id # activeObject
           /\ historyStep' = Len(history') - 1]_vars
C13_Witness ==
    /\ last.op = "delete"
    /\ last.n = 2
    /\ last.len >= 1
    /\ last.step = last.len - 1
    /\ Len(objects) = 1
    /\ Len(history) = last.len + 1
    /\ historyStep = Len(history) - 1

C15_PointerDownEntersDragging ==
    [][\A p \in Points : \A target \in 0..MaxObjs :
          MouseDown(p, target)
              => /\ (activeTool \in ShapeTools /\ ~isDrawing)
                        => (isDrawing' /\ startPoint' = p)
                 /\ (activeTool \in {"select", "move"}) => ~isDrawing']_vars

\* C16: a pointer-move changes neither the snapshot list nor the cursor
\* and schedules no deferred save.
C16_MoveKeepsHistory ==
    [][(\E p \in Points : MouseMove(p))
          => UNCHANGED <<history, historyStep, timers>>]_vars
C16_Witness ==
    /\ gesture.phase = "moved"
    /\ button = "down"
    /\ Len(history) >= 2
    /\ historyStep = Len(history) - 1
    /\ timers = <<>>

\* The snapshot list and cursor after one commit made from the list and
\* cursor a gesture began with.
OneMore(g) == Min(g.step + 1, Len(g.hist)) + 1

\* C17: after a pointer-down at p with the text tool, no drag is in
\* progress and the canvas holds exactly one more object, a committed text
\* object at p; once the deferred save has run, exactly one snapshot has
\* been appended, it holds that scene, and the cursor points to it.
C17_TextPlacedAndSaved ==
    gesture.phase = "text"
        => /\ ~isDrawing
           /\ Previews = {}
           /\ Len(objects) = Len(gesture.objs) + 1
           /\ SubSeq(objects, 1, Len(gesture.objs)) = gesture.objs
           /\ objects[Len(objects)].kind = "text"
           /\ objects[Len(objects)].geom = <<gesture.at.x, gesture.at.y>>
           /\ timers = <<>>
                 => /\ Len(history) = OneMore(gesture)
                    /\ LastSnapshot = Committed
                    /\ historyStep = Len(history) - 1

\* C18: after a freehand stroke has completed (path:created) and its
\* deferred save has run, exactly one snapshot has been appended, it holds
\* the new path, and the cursor points to it.
C18_StrokeSaved ==
    (gesture.phase = "stroke" /\ timers = <<>>)
        => /\ Len(history) = OneMore(gesture)
           /\ historyStep = Len(history) - 1
           /\ \E i \in 1..Len(LastSnapshot) :
                 /\ LastSnapshot[i].kind = "path"
                 /\ \A j \in 1..Len(gesture.objs) :
                       gesture.objs[j].id # LastSnapshot[i].id

\* The options a shape of the given kind gets from style cells st.
Look(st, kind) == ShapeStyle([style |-> st], kind)

C21_SaveWithoutCanvas ==
    [][(\/ Mount
        \/ TimerFire /\ Head(timers).fabricCanvas = "null")
          => UNCHANGED <<history, historyStep>>]_vars
C21_Witness ==
    /\ gesture.phase = "stroke"
    /\ timers = <<>>
    /\ Len(history) >= 1
    /\ history = gesture.hist
    /\ historyStep = gesture.step

\* C22: the Delete key with no object selected changes nothing: not the
\* canvas, not the snapshot list, not the cursor, and it schedules nothing.
C22_DeleteNothingSelected ==
    [][(DeleteKey /\ activeObject = NoObject) => UNCHANGED prog]_vars
C22_Witness ==
    /\ last.op = "delete"
    /\ fabricCanvas = "canvas"
    /\ last.n >= 1
    /\ last.len >= 1
    /\ Len(NonTempObjects(objects)) = last.n
    /\ Len(history) = last.len
    /\ historyStep = last.step

\* A second commit made while a deferred save is pending: the New button,
\* or the Delete key when an object is selected.
SecondCommits(s) ==
    {clearCanvas(s)}
        \cup (IF s.activeObject # NoObject THEN {deleteKey(s)} ELSE {})

\* C23: with the deferred save of a completed stroke pending and a canvas
\* attached, a clear or a delete followed by that deferred save leaves a
\* history two snapshots longer than the snapshots kept up to the cursor
\* at the end of the stroke, and those are unchanged.
C23_OverlappingSaveKeepsBoth ==
    (/\ gesture.phase = "stroke"
     /\ timers # <<>>
     /\ loads = <<>>
     /\ history = gesture.hist
     /\ historyStep = gesture.step)
        => \A s1 \in SecondCommits(Cur) :
              LET s2 == Fired(s1)
                  kept == Min(historyStep + 1, Len(history))
              IN  /\ Len(s2.history) = kept + 2
                  /\ SubSeq(s2.history, 1, kept) = SubSeq(history, 1, kept)

====
